---------------------------- MODULE Spec2Model ----------------------------
(***************************************************************************)
(* MDOF oscillation simulator (main.py, mod/initialisation.py,             *)
(* mod/rungekutta4.py).                                                    *)
(*                                                                         *)
(* Units and encodings used by the model                                   *)
(*   - times are integers; the input files considered use TSTEP = 2, so    *)
(*     the grid is 0, 2, 4, ... and the RK4 half-step times t + dt/2 are   *)
(*     the odd integers between two grid points;                           *)
(*   - OMEGA is counted in quarter turns per time unit (OMEGA = w means    *)
(*     w * pi/2 rad per time unit), so that sin and cos of OMEGA*(t-START) *)
(*     are exactly 0, 1 or -1 (SinQ, CosQ);                                *)
(*   - amplitudes P0 are even integers, so that the linear interpolation   *)
(*     half way between two samples is an integer;                         *)
(*   - masses and stiffnesses are perfect squares, so that the damping     *)
(*     coefficient zeta * 2 * sqrt(k * m) is an integer;                   *)
(*   - velocities, displacements and RK4 increments are exact rationals    *)
(*     <<numerator, denominator>>;                                         *)
(*   - a Python list / numpy array index i is index i + 1 of a sequence;   *)
(*     matrices are functions over 0 .. n-1, as in the source;             *)
(*   - body blocks of the input file are numbered 1, 2, ... in the order   *)
(*     in which they appear (the source's "numeration of mass bodies       *)
(*     starts at 1").                                                      *)
(***************************************************************************)
EXTENDS Integers, Sequences, FiniteSets, TLC

VARIABLES
    pc,        \* position of the run: which statement of main / __init__ is next
    err,       \* the exception that ended the run ("none" while running)
    t_max,     \* InputData._t_max
    t_step,    \* InputData.t_step
    n_tsteps,  \* InputData.n_tsteps (0 until *ENDSIMULATION)
    bodies,    \* InputData.bodies
    n_bodies,  \* InputData.n_bodies
    M,         \* InputData.M
    C,         \* InputData.C
    K,         \* InputData.K
    rk,        \* the RungeKutta4 object ([made |-> FALSE] until constructed)
    Y,         \* main's result array: one row per computed time step
    step,      \* main's loop index i over the time grid
    calls,     \* the times at which the last evaluate queried the forces
    fdef,      \* ForceFunction._force_def of the force function under test
    ff,        \* the force function under test
    q          \* last query of the force function under test: [t, v]

vars == <<pc, err, t_max, t_step, n_tsteps, bodies, n_bodies, M, C, K, rk, Y,
          step, calls, fdef, ff, q>>

-----------------------------------------------------------------------------
(* Bounds of the model *)

\* most movable bodies in an input file of the full run
MaxBodies == 2
\* most movable bodies in an input file handed to the assembler alone
AsmBodies == 3
\* most couplings one body block declares
MaxCpl == 2
\* most time steps of a run (n_tsteps)
MaxTsteps == 3

-----------------------------------------------------------------------------
(* Numbers *)

Abs(x) == IF x < 0 THEN -x ELSE x

RECURSIVE GCD(_, _)
GCD(a, b) == IF b = 0 THEN a ELSE GCD(b, a % b)

\* the rational n/d in lowest terms with a positive denominator
Rat(n, d) ==
    LET g == GCD(Abs(n), Abs(d))
        s == IF d < 0 THEN -1 ELSE 1
    IN  <<s * (n \div g), s * (d \div g)>>

RInt(n) == <<n, 1>>
RAdd(a, b) ==
    LET g == GCD(a[2], b[2])
    IN  Rat(a[1] * (b[2] \div g) + b[1] * (a[2] \div g), (a[2] \div g) * b[2])
RNeg(a) == <<-a[1], a[2]>>
RSub(a, b) == RAdd(a, RNeg(b))
RMul(a, b) ==
    LET g1 == GCD(Abs(a[1]), b[2])
        g2 == GCD(Abs(b[1]), a[2])
    IN  Rat((a[1] \div g1) * (b[1] \div g2), (a[2] \div g2) * (b[2] \div g1))

\* np.sqrt on the perfect squares the inputs produce
Sqrt(n) == CHOOSE r \in 0..n : r * r = n

\* sin and cos of q quarter turns
SinQ(qt) == CASE qt % 4 = 0 -> 0 [] qt % 4 = 1 -> 1 [] qt % 4 = 2 -> 0 [] OTHER -> -1
CosQ(qt) == SinQ(qt + 1)

-----------------------------------------------------------------------------
(* The time grid: np.arange(0.0, _t_max, t_step) *)

\* np.size(np.arange(0.0, tmax, tstep)) for tmax > 0, tstep > 0
ArangeSize(tmax, tstep) == (tmax + tstep - 1) \div tstep

\* np.arange(0.0, _t_max, t_step) as a sequence of n grid times
TimeGrid(n, tstep) == [j \in 1..n |-> (j - 1) * tstep]

-----------------------------------------------------------------------------
(* ForceFunction *)

\* A force definition dictionary: has is the set of keys present; the value of an
\* absent key is not read.
ForceDef(has, type, omega, p0, start, stop) ==
    [has |-> has, TYPE |-> type, OMEGA |-> omega, P0 |-> p0, START |-> start,
     STOP |-> stop]

\* MassBody.P as MassBody.__init__ leaves it: the empty list
NoForce == [isFF |-> FALSE, time |-> <<>>, P_array |-> <<>>]

\* ForceFunction.__setattr__ for name = "_force_def": the checked dictionary
\* (START and STOP defaults written into it) and the exception raised, if any.
CheckForceDef(def, time) ==
    LET first == time[1]
        last  == time[Len(time)]
        inRange(x) == x >= first /\ x <= last
    IN
    IF "TYPE" \notin def.has
      THEN [err |-> "ValueError(incomplete)", def |-> def]
    ELSE IF def.TYPE = "NONE"
      THEN [err |-> "none", def |-> def]
    ELSE IF def.TYPE \in {"SIN", "COS"}
      THEN LET ierr == "OMEGA" \notin def.has \/ "P0" \notin def.has
               d1 == IF "START" \in def.has THEN def
                     ELSE [def EXCEPT !.has = @ \cup {"START"}, !.START = 0]
               d2 == IF "STOP" \in d1.has THEN d1
                     ELSE [d1 EXCEPT !.has = @ \cup {"STOP"}, !.STOP = -1]
           IN  IF "START" \in def.has /\ ~inRange(def.START)
                 THEN [err |-> "ValueError(start)", def |-> def]
               ELSE IF "STOP" \in def.has /\ ~inRange(def.STOP)
                 THEN [err |-> "ValueError(stop)", def |-> d1]
               ELSE IF ierr
                 THEN [err |-> "ValueError(incomplete)", def |-> d2]
               ELSE [err |-> "none", def |-> d2]
    ELSE IF def.TYPE = "RANDOM"
      THEN [err |-> "NotImplementedError", def |-> def]
    ELSE [err |-> "none", def |-> def]

\* the np.where sample of ForceFunction.set for a SIN or COS definition
Sample(def, tstop, t) ==
    IF t >= def.START /\ t <= tstop
      THEN def.P0 * (IF def.TYPE = "SIN" THEN SinQ(def.OMEGA * (t - def.START))
                     ELSE CosQ(def.OMEGA * (t - def.START)))
      ELSE 0

\* ForceFunction.set(force_def, time, body_no): the exception raised ("none" if
\* it returns), the dictionary as left by the check, and the object's fields.
\* The check runs inside the assignment of _force_def, before _P_array is
\* allocated: when it raises, _P_array is still the empty list of __init__.
ForceSet(def, time) ==
    LET chk   == CheckForceDef(def, time)
        d     == chk.def
        zeros == [j \in 1..Len(time) |-> 0]
        tstop == IF d.STOP < 0 THEN time[Len(time)] ELSE d.STOP
        obj(arr) == [isFF |-> TRUE, time |-> time, P_array |-> arr]
    IN
    IF chk.err # "none"
      THEN [err |-> chk.err, def |-> d, P |-> obj(<<>>)]
    ELSE IF "STOP" \notin d.has
      THEN [err |-> "KeyError(STOP)", def |-> d, P |-> obj(zeros)]
    ELSE IF "START" \notin d.has
      THEN [err |-> "KeyError(START)", def |-> d, P |-> obj(zeros)]
    ELSE IF d.TYPE \in {"SIN", "COS"}
      THEN [err |-> "none", def |-> d,
            P |-> obj([j \in 1..Len(time) |-> Sample(d, tstop, time[j])])]
    ELSE IF d.TYPE = "RANDOM"
      THEN [err |-> "NotImplementedError", def |-> d, P |-> obj(zeros)]
    ELSE [err |-> "none", def |-> d, P |-> obj(zeros)]

\* np.interp(t, xp, fp) on an increasing grid xp
Interp(t, xp, fp) ==
    LET n == Len(xp) IN
    IF t <= xp[1] THEN fp[1]
    ELSE IF t >= xp[n] THEN fp[n]
    ELSE LET j == CHOOSE i \in 1..(n - 1) : xp[i] <= t /\ t < xp[i + 1]
         IN  fp[j] + ((t - xp[j]) * (fp[j + 1] - fp[j])) \div (xp[j + 1] - xp[j])

\* ForceFunction.get(t)
ForceGet(P, t) == Interp(t, P.time, P.P_array)

-----------------------------------------------------------------------------
(* MassBody and the body blocks of the input file *)

\* A STIFF / ZTA / c value: a numpy array (arr) or the scalar 0.0 a body keeps
\* when the input gives no such line.
Scalar(x) == [arr |-> FALSE, v |-> <<x>>]
Array(s) == [arr |-> TRUE, v |-> s]

\* np.size
Size(a) == Len(a.v)

\* _act_body.zeta * 2.0 * np.sqrt(_act_body.k * _act_body.m), with numpy's
\* broadcasting of a scalar against an array
DampingCoef(zeta, k, m) ==
    LET n == IF Size(zeta) > Size(k) THEN Size(zeta) ELSE Size(k)
        at(a, j) == IF Size(a) = 1 THEN a.v[1] ELSE a.v[j]
    IN  [arr |-> zeta.arr \/ k.arr,
         v   |-> [j \in 1..n |-> at(zeta, j) * 2 * Sqrt(at(k, j) * m)]]

\* MassBody()
MassBody ==
    [No |-> 0, m |-> 0, k |-> Scalar(0), zeta |-> Scalar(0), coupl |-> <<>>,
     x0 |-> 0, v0 |-> 0, P |-> NoForce, c |-> Scalar(0), xloc |-> 0]

\* the check of *ENDBODY: every coupling has its own STIFF and ZTA entry
EndBodyOk(b) == Size(b.k) = Len(b.coupl) /\ Size(b.zeta) = Len(b.coupl)

\* the check of the CPL line
SelfCoupled(b) == \E j \in 1..Len(b.coupl) : b.coupl[j] = b.No

-----------------------------------------------------------------------------
(* InputData.couple_bodies *)

ZeroMatrix(n) == [i \in 0..(n - 1) |-> [k \in 0..(n - 1) |-> 0]]
FalseMatrix(n) == [i \in 0..(n - 1) |-> [k \in 0..(n - 1) |-> FALSE]]

\* numpy's index into an axis of length n: negative indices count from the end
Wrap(k, n) == IF k < 0 THEN k + n ELSE k

\* The first loop: body i (list index), coupling i_con, both from 0.  st holds
\* _relations, _relations_C, _relations_K and the exception raised so far.
RECURSIVE RecordRelations(_, _, _, _)
RecordRelations(bs, i, i_con, st) ==
    LET n == Len(bs) IN
    IF st.err # "none" \/ i >= n THEN st
    ELSE IF i_con >= Len(bs[i + 1].coupl) THEN RecordRelations(bs, i + 1, 0, st)
    ELSE LET b == bs[i + 1]
             k == b.coupl[i_con + 1]
             w == Wrap(k, n)
         IN  IF k >= n \/ k < -n
               THEN [st EXCEPT !.err = "IndexError"]
             ELSE IF ~b.c.arr
               THEN [st EXCEPT !.err = "IndexError", !.rel[i][w] = TRUE,
                                !.rel[w][i] = TRUE]
             ELSE IF ~b.k.arr
               THEN [st EXCEPT !.err = "TypeError", !.rel[i][w] = TRUE,
                                !.rel[w][i] = TRUE,
                                !.relC[i][w] = b.c.v[i_con + 1],
                                !.relC[w][i] = b.c.v[i_con + 1]]
             ELSE RecordRelations(bs, i, i_con + 1,
                    [st EXCEPT !.rel[i][w] = TRUE, !.rel[w][i] = TRUE,
                               !.relC[i][w] = b.c.v[i_con + 1],
                               !.relC[w][i] = b.c.v[i_con + 1],
                               !.relK[i][w] = b.k.v[i_con + 1],
                               !.relK[w][i] = b.k.v[i_con + 1]])

Relations(bs) ==
    RecordRelations(bs, 0, 0,
        [err |-> "none", rel |-> FalseMatrix(Len(bs)),
         relC |-> ZeroMatrix(Len(bs)), relK |-> ZeroMatrix(Len(bs))])

\* the sum of coef[i, i_con] over the i_con in from..n-1 that are coupled to i
RECURSIVE SumCoupled(_, _, _, _, _)
SumCoupled(rel, coef, i, from, n) ==
    IF from >= n THEN 0
    ELSE (IF rel[i][from] THEN coef[i][from] ELSE 0)
         + SumCoupled(rel, coef, i, from + 1, n)

\* any(self._relations[i,:])
HasRelation_Always(rel, i, n) == TRUE
HasRelation(rel, i, n) == \E k \in 0..(n - 1) : rel[i][k]

CoupledRow_GroundLeftOut(rel, coef, i, n) ==
    [k \in 0..(n - 1) |->
        IF k < i THEN 0
        ELSE IF k = i THEN SumCoupled(rel, coef, i, 1, n)
        ELSE -SumCoupled(rel, coef, i, 1, n)]
\* row i of C or K as the loop over k in range(i, _nbodies) fills it
CoupledRow(rel, coef, i, n) ==
    [k \in 0..(n - 1) |->
        IF k < i THEN 0
        ELSE IF k = i THEN SumCoupled(rel, coef, i, 0, n)
        ELSE -SumCoupled(rel, coef, i, 1, n)]

RECURSIVE AssembleRows_BaseUnchecked(_, _, _, _)
AssembleRows_BaseUnchecked(bs, r, i, st) ==
    LET n == Len(bs) IN
    IF i >= n THEN st
    ELSE LET withM == [st EXCEPT !.M[i][i] = bs[i + 1].m] IN
         IF i > 0 /\ ~HasRelation(r.rel, i, n)
           THEN [withM EXCEPT !.err = "ValueError(no coupling)"]
           ELSE AssembleRows_BaseUnchecked(bs, r, i + 1,
                  [withM EXCEPT !.C[i] = CoupledRow(r.rel, r.relC, i, n),
                                !.K[i] = CoupledRow(r.rel, r.relK, i, n)])
\* The second loop, from body i on.  st holds M, C, K and the exception raised.
RECURSIVE AssembleRows(_, _, _, _)
AssembleRows(bs, r, i, st) ==
    LET n == Len(bs) IN
    IF i >= n THEN st
    ELSE LET withM == [st EXCEPT !.M[i][i] = bs[i + 1].m] IN
         IF ~HasRelation(r.rel, i, n)
           THEN [withM EXCEPT !.err = "ValueError(no coupling)"]
           ELSE AssembleRows(bs, r, i + 1,
                  [withM EXCEPT !.C[i] = CoupledRow(r.rel, r.relC, i, n),
                                !.K[i] = CoupledRow(r.rel, r.relK, i, n)])

\* M[1:,1:]
DropFirst(A, n) == [i \in 0..(n - 2) |-> [k \in 0..(n - 2) |-> A[i + 1][k + 1]]]

Mirror_Skipped(A, n) == A
\* "Mirror the bottom half": A[k,i] = A[i,k] for k > i
Mirror(A, n) ==
    [i \in 0..(n - 1) |-> [k \in 0..(n - 1) |-> IF k < i THEN A[k][i] ELSE A[i][k]]]

\* "Delete base from bodies": whether bodies[0] is the base, and the list after
BaseFirst(bs) == bs[1].No = 0
WithoutBase_Kept(bs) == bs
WithoutBase(bs) == IF BaseFirst(bs) THEN Tail(bs) ELSE bs

\* couple_bodies on the body list bs, with nb the value of n_bodies before the
\* call: the exception raised and the fields of the InputData object after it.
CoupleBodies(bs, nb) ==
    LET n   == Len(bs)
        r   == Relations(bs)
        z   == [err |-> "none", M |-> ZeroMatrix(n), C |-> ZeroMatrix(n),
                K |-> ZeroMatrix(n)]
        a   == AssembleRows(bs, r, 0, z)
        kept == WithoutBase(bs)
        n2  == IF BaseFirst(bs) THEN n - 1 ELSE n
        cut(A) == IF BaseFirst(bs) THEN DropFirst(A, n) ELSE A
    IN
    IF r.err # "none"
      THEN [err |-> r.err, M |-> z.M, C |-> z.C, K |-> z.K, bodies |-> bs,
            n_bodies |-> nb]
    ELSE IF a.err # "none"
      THEN [err |-> a.err, M |-> a.M, C |-> a.C, K |-> a.K, bodies |-> bs,
            n_bodies |-> nb]
    ELSE [err |-> "none", M |-> cut(a.M), C |-> Mirror(cut(a.C), n2),
          K |-> Mirror(cut(a.K), n2),
          bodies |-> kept,
          n_bodies |-> IF BaseFirst(bs) THEN Len(kept) ELSE nb]

-----------------------------------------------------------------------------
(* RungeKutta4 *)

\* vectors over the bodies are sequences of rationals
\* (SubSeq makes TLC evaluate the vector once, where it is built)
Vec(f, n) == SubSeq(f, 1, n)
VAdd(a, b) == Vec([j \in 1..Len(a) |-> RAdd(a[j], b[j])], Len(a))
VSub(a, b) == Vec([j \in 1..Len(a) |-> RSub(a[j], b[j])], Len(a))
VScale(r, a) == Vec([j \in 1..Len(a) |-> RMul(r, a[j])], Len(a))

RECURSIVE RowDot(_, _, _)
RowDot(row, x, k) ==
    IF k > Len(x) THEN RInt(0)
    ELSE RAdd(RMul(row[k - 1], x[k]), RowDot(row, x, k + 1))

\* A.dot(x) for a matrix A of rationals
Dot(A, x) == Vec([j \in 1..Len(x) |-> RowDot(A[j - 1], x, 1)], Len(x))

RatMatrix(A, n) == [i \in 0..(n - 1) |-> [k \in 0..(n - 1) |-> RInt(A[i][k])]]

\* np.linalg.inv raises LinAlgError on a singular matrix; the mass matrix is
\* diagonal, and singular exactly when a diagonal entry is 0
Singular(A, n) == \E i \in 0..(n - 1) : A[i][i] = 0

\* np.linalg.inv(M) for the diagonal mass matrix
Inv(A, n) ==
    [i \in 0..(n - 1) |-> [k \in 0..(n - 1) |->
        IF i = k /\ A[i][i] # 0 THEN Rat(1, A[i][i]) ELSE RInt(0)]]

\* RungeKutta4.__init__(P, M, C, K, dt)
RungeKutta4(P, M0, C0, K0, dt, n) ==
    [made |-> TRUE, M_inv |-> Inv(M0, n), C |-> RatMatrix(C0, n),
     K |-> RatMatrix(K0, n), P |-> P, dt |-> dt, nbodies |-> n]

NoRK == [made |-> FALSE]

\* the loop of F over the bodies fails at the first body whose force entry has
\* no get method
ForceError(r) == \E b \in 1..r.nbodies : ~r.P[b].isFF

\* the force vector P of RungeKutta4.F at time t
ForceVector(r, t) ==
    Vec([b \in 1..r.nbodies |-> RInt(ForceGet(r.P[b], t))], r.nbodies)

\* RungeKutta4.F(x, y, t)
F(r, xs, ys, ts) ==
    Dot(r.M_inv, VSub(VSub(ForceVector(r, ts), Dot(r.K, xs)), Dot(r.C, ys)))

\* the times at which evaluate(y, x, t) calls F
StageTimes(r, t) == <<t, t + r.dt \div 2, t + r.dt \div 2, t + r.dt>>

Evaluate_OneStage(r, y, x, t) ==
    LET F1 == F(r, x, y, t)
    IN  [b \in 1..r.nbodies |->
            <<RMul(RInt(r.dt), F1[b]), RMul(RInt(r.dt), y[b])>>]
\* RungeKutta4.evaluate(y, x, t): per body the pair <<y_ip1, x_ip1>>
Evaluate(r, y, x, t) ==
    LET h   == Rat(r.dt, 2)
        d   == RInt(r.dt)
        st  == StageTimes(r, t)
        F1  == F(r, x, y, st[1])
        x2  == VAdd(x, VScale(h, y))
        y2  == VAdd(y, VScale(h, F1))
        F2  == F(r, x2, y2, st[2])
        x3  == VAdd(x, VScale(h, y2))
        y3  == VAdd(y, VScale(h, F2))
        F3  == F(r, x3, y3, st[3])
        x4  == VAdd(x, VScale(d, y3))
        y4  == VAdd(y, VScale(d, F3))
        F4  == F(r, x4, y4, st[4])
        two == RInt(2)
        x_ip1 == VScale(Rat(r.dt, 6),
                   VAdd(VAdd(y, VScale(two, y2)), VAdd(VScale(two, y3), y4)))
        y_ip1 == VScale(Rat(r.dt, 6),
                   VAdd(VAdd(F1, VScale(two, F2)), VAdd(VScale(two, F3), F4)))
    IN  [b \in 1..r.nbodies |-> <<y_ip1[b], x_ip1[b]>>]

-----------------------------------------------------------------------------
(* The input files considered *)

Seqs(S, lo, hi) == UNION {[1..n -> S] : n \in lo..hi}

Ascending(s) == \A j \in 1..(Len(s) - 1) : s[j] < s[j + 1]

\* TSTEP and TMAX of the *SIMULATION block (TMAX = 0 is "not defined")
TSteps == {2}
TMaxs == {0} \cup {2 * n : n \in 1..MaxTsteps}

\* Body blocks of a full run ("run") and of the assembler alone ("asm").
Masses(prof) == IF prof = "run" THEN {0, 1, 4} ELSE {1, 4}
CplLines(prof) ==
    IF prof = "run" THEN Seqs(0..MaxBodies, 0, MaxCpl)
    ELSE {s \in Seqs(0..AsmBodies, 1, MaxCpl) : Ascending(s)}
StiffLines(prof) ==
    IF prof = "run" THEN {Scalar(0)} \cup {Array(s) : s \in Seqs({4}, 1, MaxCpl)}
    ELSE {Array(s) : s \in Seqs({1, 4}, 1, MaxCpl)}
ZtaLines(prof) ==
    IF prof = "run" THEN {Scalar(0)} \cup {Array(s) : s \in Seqs({1}, 1, MaxCpl)}
    ELSE {Array(s) : s \in Seqs({1}, 1, MaxCpl)}
X0s == {1}
V0s == {0}
XLocs == {2}

\* *FORCE blocks of a full run: none, a TYPE=NONE block, a sine, a cosine with
\* a window and a cosine over the whole run
Absent == ForceDef({}, "", 0, 0, 0, 0)
ForceBlocks(prof) ==
    IF prof = "run"
      THEN {Absent,
            ForceDef({"TYPE"}, "NONE", 0, 0, 0, 0),
            ForceDef({"TYPE", "OMEGA", "P0"}, "SIN", 1, 2, 0, 0),
            ForceDef({"TYPE", "OMEGA", "P0", "START", "STOP"}, "COS", 1, 2, 1, 2),
            ForceDef({"TYPE", "OMEGA", "P0"}, "COS", 1, 2, 0, 0)}
      ELSE {Absent}

\* the force definitions given to a force function on its own
ForceDefs(last) ==
    {ForceDef(has,
              IF "TYPE" \in has THEN type ELSE "",
              IF "OMEGA" \in has THEN 1 ELSE 0,
              IF "P0" \in has THEN 2 ELSE 0,
              IF "START" \in has THEN start ELSE 0,
              IF "STOP" \in has THEN stop ELSE 0) :
        has \in SUBSET {"TYPE", "OMEGA", "P0", "START", "STOP"},
        type \in {"NONE", "SIN", "COS", "RANDOM"},
        start \in (-1)..(last + 1), stop \in (-1)..(last + 1)}

-----------------------------------------------------------------------------
(* The run: InputData.__init__, couple_bodies, main *)

\* the time grid InputData.time
Time == TimeGrid(n_tsteps, t_step)

NoMatrix == ZeroMatrix(0)

\* InputData.__init__ up to the first line of the file, with the TMAX and TSTEP
\* lines of the *SIMULATION block read
Init ==
    /\ pc = "sim"
    /\ err = "none"
    /\ t_max \in TMaxs
    /\ t_step \in TSteps
    /\ n_tsteps = 0
    /\ bodies = <<MassBody>>
    /\ n_bodies = 0
    /\ M = NoMatrix /\ C = NoMatrix /\ K = NoMatrix
    /\ rk = NoRK
    /\ Y = <<>>
    /\ step = 0
    /\ calls = <<>>
    /\ fdef = Absent
    /\ ff = NoForce
    /\ q = <<>>

\* the *ENDSIMULATION line
EndSimulation ==
    /\ pc = "sim" /\ err = "none"
    /\ IF t_step > 0 /\ t_max > 0
         THEN /\ n_tsteps' = ArangeSize(t_max, t_step)
              /\ pc' = "bodies"
              /\ err' = err
         ELSE /\ err' = "ValueError(time settings)"
              /\ UNCHANGED <<n_tsteps, pc>>
    /\ UNCHANGED <<t_max, t_step, bodies, n_bodies, M, C, K, rk, Y, step, calls,
                   fdef, ff, q>>

\* the body a *BODY ... *ENDBODY block leaves in _act_body, the *FORCE block
\* nested in it not yet applied
ActBody(no, m, k, zeta, coupl, x0, v0, xloc) ==
    [MassBody EXCEPT !.No = no, !.m = m, !.k = k, !.zeta = zeta, !.coupl = coupl,
                     !.x0 = x0, !.v0 = v0, !.xloc = xloc]

\* The lines of one body block: *BODY, MASS, STIFF, ZTA, CPL, X0, V0, XLOC, an
\* optional *FORCE ... *ENDFORCE block, *ENDBODY.
ParseBody(prof, maxBodies) ==
    /\ pc = "bodies" /\ err = "none"
    /\ Len(bodies) <= maxBodies
    /\ \E m \in Masses(prof), k \in StiffLines(prof), zeta \in ZtaLines(prof),
          coupl \in CplLines(prof), x0 \in X0s, v0 \in V0s, xloc \in XLocs,
          fd \in ForceBlocks(prof) :
         LET b  == ActBody(Len(bodies), m, k, zeta, coupl, x0, v0, xloc)
             fs == ForceSet(fd, Time)
         IN  IF SelfCoupled(b)
               THEN err' = "ValueError(self coupling)" /\ bodies' = bodies
             ELSE IF fd # Absent /\ fs.err # "none"
               THEN err' = fs.err /\ bodies' = bodies
             ELSE IF ~EndBodyOk(b)
               THEN err' = "ValueError(coupling parameters)" /\ bodies' = bodies
             ELSE /\ err' = err
                  /\ bodies' = Append(bodies,
                        [b EXCEPT !.c = DampingCoef(zeta, k, m),
                                  !.P = IF fd = Absent THEN NoForce ELSE fs.P])
    /\ UNCHANGED <<pc, t_max, t_step, n_tsteps, n_bodies, M, C, K, rk, Y, step,
                   calls, fdef, ff, q>>

\* main, line 37: inp_data.couple_bodies(), once the file is read to its end
Couple ==
    /\ pc = "bodies" /\ err = "none"
    /\ LET r == CoupleBodies(bodies, n_bodies)
       IN  /\ err' = r.err
           /\ M' = r.M /\ C' = r.C /\ K' = r.K
           /\ bodies' = r.bodies
           /\ n_bodies' = r.n_bodies
    /\ pc' = "coupled"
    /\ UNCHANGED <<t_max, t_step, n_tsteps, rk, Y, step, calls, fdef, ff, q>>

\* a second call of couple_bodies on the same InputData object
CoupleAgain ==
    /\ pc = "coupled" /\ err = "none"
    /\ LET r == CoupleBodies(bodies, n_bodies)
       IN  /\ err' = r.err
           /\ M' = r.M /\ C' = r.C /\ K' = r.K
           /\ bodies' = r.bodies
           /\ n_bodies' = r.n_bodies
    /\ pc' = "recoupled"
    /\ UNCHANGED <<t_max, t_step, n_tsteps, rk, Y, step, calls, fdef, ff, q>>

\* InputData.get_init_cond with get_force_array
InitCond == [b \in 1..n_bodies |-> <<RInt(bodies[b].v0), RInt(bodies[b].x0)>>]
ForceArray == [b \in 1..Len(bodies) |-> bodies[b].P]

ZeroRow == [b \in 1..n_bodies |-> <<RInt(0), RInt(0)>>]

\* main, lines 39 to 49: the result array, the initial conditions, the integrator
InitIntegrator ==
    /\ pc = "coupled" /\ err = "none"
    /\ Y' = [j \in 0..(n_tsteps - 1) |-> IF j = 0 THEN InitCond ELSE ZeroRow]
    /\ IF Singular(M, n_bodies)
         THEN err' = "LinAlgError" /\ rk' = rk
         ELSE err' = err
              /\ rk' = RungeKutta4(ForceArray, M, C, K, t_step, n_bodies)
    /\ pc' = "loop"
    /\ step' = 1
    /\ UNCHANGED <<t_max, t_step, n_tsteps, bodies, n_bodies, M, C, K, calls,
                   fdef, ff, q>>

Velocities(row) == [b \in 1..Len(row) |-> row[b][1]]
Displacements(row) == [b \in 1..Len(row) |-> row[b][2]]
RowAdd(row, inc) ==
    [b \in 1..Len(row) |-> <<RAdd(row[b][1], inc[b][1]), RAdd(row[b][2], inc[b][2])>>]

\* main, lines 61 to 65: one pass of the loop with i > 0
Step ==
    /\ pc = "loop" /\ err = "none"
    /\ step < n_tsteps
    /\ LET t == Time[step + 1] IN
       IF ForceError(rk)
         THEN /\ err' = "AttributeError"
              /\ UNCHANGED <<Y, step>>
              /\ calls' = <<t>>
         ELSE /\ Y' = [Y EXCEPT ![step] =
                        RowAdd(Y[step - 1],
                               Evaluate(rk, Velocities(Y[step - 1]),
                                        Displacements(Y[step - 1]), t))]
              /\ calls' = StageTimes(rk, t)
              /\ step' = step + 1
              /\ err' = err
    /\ UNCHANGED <<pc, t_max, t_step, n_tsteps, bodies, n_bodies, M, C, K, rk,
                   fdef, ff, q>>

\* main, lines 67 to 69: the bodies' reference positions added
Finish ==
    /\ pc = "loop" /\ err = "none"
    /\ step = n_tsteps
    /\ Y' = [j \in 0..(n_tsteps - 1) |->
                [b \in 1..n_bodies |->
                    <<Y[j][b][1], RAdd(Y[j][b][2], RInt(bodies[b].xloc))>>]]
    /\ pc' = "done"
    /\ UNCHANGED <<err, t_max, t_step, n_tsteps, bodies, n_bodies, M, C, K, rk,
                   step, calls, fdef, ff, q>>

Next ==
    \/ EndSimulation
    \/ ParseBody("run", MaxBodies)
    \/ Couple
    \/ InitIntegrator
    \/ Step
    \/ Finish

Spec == Init /\ [][Next]_vars

-----------------------------------------------------------------------------
(* The assembler on its own: a file is read and couple_bodies is called, twice *)

InitAsm == Init /\ t_max = 2 * MaxTsteps

NextAsm ==
    \/ EndSimulation
    \/ ParseBody("asm", AsmBodies)
    \/ Couple
    \/ CoupleAgain

SpecAsm == InitAsm /\ [][NextAsm]_vars

-----------------------------------------------------------------------------
(* couple_bodies on a registry filled in directly, not read from a file: the
   bodies may declare no coupling at all (empty STIFF, ZTA and CPL arrays) *)

DirectBody(no, m, coupl) ==
    [MassBody EXCEPT !.No = no, !.m = m, !.coupl = coupl,
                     !.k = Array([j \in 1..Len(coupl) |-> 4]),
                     !.zeta = Array([j \in 1..Len(coupl) |-> 1]),
                     !.c = DampingCoef(Array([j \in 1..Len(coupl) |-> 1]),
                                       Array([j \in 1..Len(coupl) |-> 4]), m)]

DirectCpl(n, no) == {s \in Seqs(0..n, 0, MaxCpl) : \A j \in 1..Len(s) : s[j] # no}

Registries ==
    UNION {{<<MassBody>> \o [b \in 1..n |-> DirectBody(b, 1, cs[b])] :
               cs \in {f \in [1..n -> Seqs(0..n, 0, MaxCpl)] :
                          \A b \in 1..n : f[b] \in DirectCpl(n, b)}} :
           n \in 1..MaxBodies}

InitReg ==
    /\ pc = "bodies"
    /\ err = "none"
    /\ t_step \in TSteps
    /\ t_max = 2 * MaxTsteps
    /\ n_tsteps = ArangeSize(t_max, t_step)
    /\ bodies \in Registries
    /\ n_bodies = 0
    /\ M = NoMatrix /\ C = NoMatrix /\ K = NoMatrix
    /\ rk = NoRK
    /\ Y = <<>>
    /\ step = 0
    /\ calls = <<>>
    /\ fdef = Absent
    /\ ff = NoForce
    /\ q = <<>>

NextReg ==
    \/ Couple
    \/ InitIntegrator

SpecReg == InitReg /\ [][NextReg]_vars

-----------------------------------------------------------------------------
(* A force function on its own: the *ENDFORCE line, then queries *)

InitForce ==
    /\ pc = "force"
    /\ err = "none"
    /\ t_step \in TSteps
    /\ t_max \in TMaxs \ {0}
    /\ n_tsteps = ArangeSize(t_max, t_step)
    /\ bodies = <<MassBody>>
    /\ n_bodies = 0
    /\ M = NoMatrix /\ C = NoMatrix /\ K = NoMatrix
    /\ rk = NoRK
    /\ Y = <<>>
    /\ step = 0
    /\ calls = <<>>
    /\ fdef \in ForceDefs((n_tsteps - 1) * t_step)
    /\ ff = NoForce
    /\ q = <<>>

\* the *ENDFORCE line: _act_body.P = ForceFunction(); _act_body.P.set(...)
EndForce ==
    /\ pc = "force" /\ err = "none"
    /\ LET fs == ForceSet(fdef, Time)
       IN  /\ err' = fs.err
           /\ fdef' = fs.def
           /\ ff' = fs.P
    /\ pc' = "force_set"
    /\ UNCHANGED <<t_max, t_step, n_tsteps, bodies, n_bodies, M, C, K, rk, Y,
                   step, calls, q>>

\* a call of get(t), at a grid time, a half-step time or one step past the grid
GetForce ==
    /\ pc = "force_set" /\ err = "none"
    /\ \E t \in 0..(n_tsteps * t_step) : q' = <<t, ForceGet(ff, t)>>
    /\ UNCHANGED <<pc, err, t_max, t_step, n_tsteps, bodies, n_bodies, M, C, K,
                   rk, Y, step, calls, fdef, ff>>

NextForce ==
    \/ EndForce
    \/ GetForce

SpecForce == InitForce /\ [][NextForce]_vars

-----------------------------------------------------------------------------
(* Vocabulary of the properties *)

\* the grid time of the last step
LastTime == (n_tsteps - 1) * t_step

\* list indices of the movable bodies of the registry
Movable == {b \in 1..Len(bodies) : bodies[b].No >= 1}

\* the values (field "k" or "c") that body a declares for its couplings to body b
DeclaredBy(a, b, field) ==
    {bodies[a][field].v[j] :
        j \in {j \in 1..Len(bodies[a].coupl) : bodies[a].coupl[j] = bodies[b].No}}

\* the values declared, by either endpoint, for the coupling between a and b
Declared(a, b, field) == DeclaredBy(a, b, field) \cup DeclaredBy(b, a, field)

\* the values (field "k" or "c") that body a declares for its couplings to the
\* body numbered no (0 is the ground)
DeclaredTo(a, no, field) ==
    {bodies[a][field].v[j] :
        j \in {j \in 1..Len(bodies[a].coupl) : bodies[a].coupl[j] = no}}

\* The coefficient of the coupling between movable body a and the body numbered
\* no, in a registry without its base: the value declared for it, that of the
\* endpoint later in the file when both endpoints declare it; 0 without a
\* coupling.
PairCoef(a, no, field) ==
    LET own    == DeclaredTo(a, no, field)
        theirs == IF no = 0 THEN {} ELSE DeclaredTo(no, bodies[a].No, field)
        later  == IF no > a THEN theirs ELSE own
        sooner == IF no > a THEN own ELSE theirs
    IN  IF later # {} THEN CHOOSE x \in later : TRUE
        ELSE IF sooner # {} THEN CHOOSE x \in sooner : TRUE
        ELSE 0

\* the sum of the coefficients over the neighbours of a numbered no or higher
RECURSIVE NeighbourSum(_, _, _)
NeighbourSum(a, no, field) ==
    IF no > Len(bodies) THEN 0
    ELSE (IF no = a THEN 0 ELSE PairCoef(a, no, field))
         + NeighbourSum(a, no + 1, field)

\* body a is coupled to the ground
Grounded(a) == \E j \in 1..Len(bodies[a].coupl) : bodies[a].coupl[j] = 0

\* the registry as it was read (base first), with d added to the stiffness and
\* to the damping coefficient of every coupling to the ground
GroundShifted(d) ==
    LET shift(b, v) ==
            [j \in 1..Len(v) |-> IF bodies[b].coupl[j] = 0 THEN v[j] + d ELSE v[j]]
    IN  <<MassBody>> \o
        [b \in 1..Len(bodies) |->
            [bodies[b] EXCEPT !.k.v = shift(b, bodies[b].k.v),
                              !.c.v = shift(b, bodies[b].c.v)]]

\* The classical Runge-Kutta scheme of order 4 for the first-order system
\* x' = y, y' = F(x, y, t), on states z = <<x, y>>: the increment of z over one
\* step of length r.dt from time t.
ZAdd(z, w) == <<VAdd(z[1], w[1]), VAdd(z[2], w[2])>>
ZScale(a, z) == <<VScale(a, z[1]), VScale(a, z[2])>>
Deriv(r, z, t) == <<z[2], F(r, z[1], z[2], t)>>
ClassicalRK4(r, z, t) ==
    LET half == Rat(r.dt, 2)
        full == RInt(r.dt)
        tmid == t + r.dt \div 2
        k1 == Deriv(r, z, t)
        k2 == Deriv(r, ZAdd(z, ZScale(half, k1)), tmid)
        k3 == Deriv(r, ZAdd(z, ZScale(half, k2)), tmid)
        k4 == Deriv(r, ZAdd(z, ZScale(full, k3)), t + r.dt)
    IN  ZScale(Rat(r.dt, 6),
               ZAdd(ZAdd(k1, ZScale(RInt(2), k2)), ZAdd(ZScale(RInt(2), k3), k4)))

\* body b declares no coupling and no other body declares one to it
Unconnected(b) ==
    /\ bodies[b].coupl = <<>>
    /\ \A a \in 1..Len(bodies) :
          \A j \in 1..Len(bodies[a].coupl) : bodies[a].coupl[j] # bodies[b].No

\* couple_bodies has returned (once)
Assembled == pc = "coupled" /\ err = "none"

\* the force definition lacks what its kind needs
Incomplete(def) ==
    \/ "TYPE" \notin def.has
    \/ /\ def.TYPE \in {"SIN", "COS"}
       /\ ("P0" \notin def.has \/ "OMEGA" \notin def.has)

\* a sine or cosine force function has been set
WaveSet == pc = "force_set" /\ err = "none" /\ fdef.TYPE \in {"SIN", "COS"}

\* its active window
WinStart == fdef.START
WinStop == IF fdef.STOP < 0 THEN LastTime ELSE fdef.STOP

-----------------------------------------------------------------------------
(* Properties *)

\* C1: after couple_bodies, for distinct movable bodies i and k, K[i,k] (C[i,k])
\* is minus the stiffness (damping coefficient) of the coupling between i and k
\* when one is declared, and 0 when none is; couplings of i to third bodies do
\* not enter.
C1_OffDiagonalIsPairCoupling ==
    Assembled =>
        \A a, b \in 1..n_bodies :
            a # b =>
                IF Declared(a, b, "k") = {}
                  THEN K[a - 1][b - 1] = 0 /\ C[a - 1][b - 1] = 0
                  ELSE /\ -K[a - 1][b - 1] \in Declared(a, b, "k")
                       /\ -C[a - 1][b - 1] \in Declared(a, b, "c")

\* C2: a body without a force definition gets zero force at every stage of
\* every step, and the run completes: once the integrator exists, no step
\* raises.
C2_NoForceBlockRunsToEnd ==
    (rk.made /\ \E b \in 1..Len(bodies) : ~bodies[b].P.isFF) => err = "none"

\* C3: a force definition without a kind, or of kind sine or cosine without P0
\* or OMEGA, does not abort the run: set returns and the body's force is 0.
C3_IncompleteForceIsNotFatal ==
    (pc = "force_set" /\ Incomplete(fdef)
        /\ err \notin {"ValueError(start)", "ValueError(stop)"})
    => (err = "none" /\ \A j \in 1..Len(ff.P_array) : ff.P_array[j] = 0)

\* C4 as stated: couple_bodies leaves the body list unchanged, and a second
\* call on the same registry object returns with the same M, C and K.
C4_SecondCallIdentical ==
    [][/\ (pc = "bodies" /\ pc' = "coupled" /\ err' = "none") => bodies' = bodies
       /\ (pc = "coupled" /\ pc' = "recoupled")
             => (err' = "none" /\ M' = M /\ C' = C /\ K' = K)]_vars

\* C4, amended: a successful couple_bodies removes the base from the head of
\* the body list and leaves the movable bodies as they were, in order, with
\* n_bodies their number and M, C, K of that size; a second call on the same
\* object finds no base to remove and leaves the list as it is.
C4_FirstCallRemovesBase ==
    [][/\ (pc = "bodies" /\ pc' = "coupled" /\ err' = "none")
             => /\ bodies[1].No = 0
                /\ bodies' = Tail(bodies)
                /\ n_bodies' = Len(bodies) - 1
                /\ DOMAIN M' = 0..(n_bodies' - 1)
                /\ DOMAIN C' = DOMAIN M' /\ DOMAIN K' = DOMAIN M'
       /\ (pc = "coupled" /\ pc' = "recoupled")
             => (bodies' = bodies /\ n_bodies' = n_bodies)]_vars

\* a second call that fails on the registry the first call left behind
C4_Witness ==
    /\ pc = "recoupled" /\ err = "IndexError"
    /\ Len(bodies) >= 2 /\ bodies[1].No = 1

\* C5: for a sine or cosine force with window [start, stop], get(t) is exactly 0
\* at every t < start or t > stop, half-step times included, and at a grid time
\* inside the window it is P0 * sin_or_cos(OMEGA * (t - start)).  (Stated for
\* the query times from the first to the last grid time.)
C5_ZeroOutsideWindow ==
    (WaveSet /\ q # <<>> /\ q[1] <= LastTime) =>
        LET t == q[1]
            v == q[2]
        IN  /\ (t < WinStart \/ t > WinStop) => v = 0
            /\ (t % t_step = 0 /\ t <= LastTime /\ t >= WinStart /\ t <= WinStop)
                  => v = fdef.P0 * (IF fdef.TYPE = "SIN"
                                      THEN SinQ(fdef.OMEGA * (t - WinStart))
                                      ELSE CosQ(fdef.OMEGA * (t - WinStart)))

\* C6: every abort happens before the first call of evaluate: once the
\* integrator is constructed the loop runs all its steps.
C6_AbortsBeforeIntegration == err # "none" => ~rk.made

\* C7: after a successful couple_bodies M is diagonal with the bodies' masses
\* on the diagonal, and C and K are symmetric.
C7_DiagonalAndSymmetric ==
    (pc \in {"coupled", "recoupled"} /\ err = "none") =>
        \A a, b \in 1..Len(bodies) :
            /\ M[a - 1][b - 1] = (IF a = b THEN bodies[a].m ELSE 0)
            /\ C[a - 1][b - 1] = C[b - 1][a - 1]
            /\ K[a - 1][b - 1] = K[b - 1][a - 1]

\* three bodies assembled: one coupling declared with different values by its
\* two endpoints, another declared by one endpoint only, both in K and C
C7_Witness ==
    /\ Assembled
    /\ \E a, b \in 1..n_bodies :
          /\ a # b /\ K[a - 1][b - 1] # 0 /\ C[a - 1][b - 1] # 0
          /\ \E x \in DeclaredBy(a, b, "k") : \E y \in DeclaredBy(b, a, "k") : x # y
    /\ \E a, b \in 1..n_bodies :
          /\ a # b /\ K[a - 1][b - 1] # 0
          /\ DeclaredBy(a, b, "k") # {} /\ DeclaredBy(b, a, "k") = {}

\* C8: a definition of kind none with no other key is accepted by set, and the
\* force is 0 at every time.
C8_KindNoneAccepted ==
    (pc = "force_set" /\ fdef.has = {"TYPE"} /\ fdef.TYPE = "NONE")
    => (err = "none" /\ \A j \in 1..Len(ff.P_array) : ff.P_array[j] = 0)

\* C9: couple_bodies raises for every registry in which some movable body has
\* no coupling, declared neither by itself nor by another body, and the
\* integrator is not constructed.
C9_UnconnectedBodyFails ==
    (pc # "bodies" /\ \E b \in Movable : Unconnected(b))
    => (err # "none" /\ ~rk.made)

\* couple_bodies has failed on a registry with an unconnected movable body whose
\* base is coupled
C9_Witness ==
    /\ pc = "coupled" /\ err = "ValueError(no coupling)"
    /\ \E b \in Movable : Unconnected(b)
    /\ \E a \in Movable : \E j \in 1..Len(bodies[a].coupl) : bodies[a].coupl[j] = 0

\* C10: after a successful set of a sine or cosine force, start <= stop and both
\* lie in the simulation time domain.
C10_WindowOrdered ==
    WaveSet =>
        /\ WinStart <= WinStop
        /\ 0 <= WinStart /\ WinStart <= LastTime
        /\ 0 <= WinStop /\ WinStop <= LastTime

\* C11: the four stages that produce Y[i] (i >= 1) evaluate the forces at
\* time[i-1], time[i-1] + dt/2 (twice) and time[i-1] + dt.  (After the pass of
\* the loop that wrote Y[i], step = i + 1 and calls holds the four times.)
C11_StagesStartAtPreviousTime ==
    (pc = "loop" /\ err = "none" /\ step >= 2) =>
        LET prev == (step - 2) * t_step
        IN  calls = <<prev, prev + t_step \div 2, prev + t_step \div 2,
                      prev + t_step>>

\* C12: after couple_bodies, for every movable body i, K[i,i] (C[i,i]) is the
\* sum of the stiffness (damping coefficient) over the bodies coupled to i, each
\* neighbour once and the ground included; a coupling to ground contributes to
\* no off-diagonal entry: with other ground couplings the off-diagonal entries
\* are the same, and only the diagonal follows.
C12_DiagonalSumsAllCouplings ==
    Assembled =>
        LET alt == CoupleBodies(GroundShifted(3), 0)
        IN  /\ alt.err = "none"
            /\ \A a \in 1..n_bodies :
                  /\ K[a - 1][a - 1] = NeighbourSum(a, 0, "k")
                  /\ C[a - 1][a - 1] = NeighbourSum(a, 0, "c")
                  /\ alt.K[a - 1][a - 1]
                        = K[a - 1][a - 1] + (IF Grounded(a) THEN 3 ELSE 0)
                  /\ alt.C[a - 1][a - 1]
                        = C[a - 1][a - 1] + (IF Grounded(a) THEN 3 ELSE 0)
                  /\ \A b \in 1..n_bodies :
                        a # b => /\ alt.K[a - 1][b - 1] = K[a - 1][b - 1]
                                 /\ alt.C[a - 1][b - 1] = C[a - 1][b - 1]

\* three bodies assembled, one of them coupled to the ground and to both
\* others, one coupling declared by both its endpoints with different values
C12_Witness ==
    /\ Assembled /\ n_bodies = 3
    /\ \E a \in 1..n_bodies :
          /\ Grounded(a)
          /\ \A b \in 1..n_bodies \ {a} : PairCoef(a, b, "k") # 0
          /\ \E b \in 1..n_bodies \ {a} :
                /\ DeclaredTo(a, b, "k") # {} /\ DeclaredTo(b, a, "k") # {}
                /\ DeclaredTo(a, b, "k") # DeclaredTo(b, a, "k")
          /\ K[a - 1][a - 1] = NeighbourSum(a, 0, "k")
          /\ K[a - 1][a - 1] > PairCoef(a, 0, "k")

\* C13: evaluate(y, x, t) is the classical four-stage scheme (stages at t,
\* t + dt/2 twice, t + dt) and returns per body the pair (velocity increment,
\* displacement increment) in that order; it changes neither its inputs nor the
\* integrator's matrices.  (In a pass of main's loop, calls' holds the times of
\* the four stages, the first of them the t given to evaluate.)
C13_ClassicalFourStages ==
    [][(pc = "loop" /\ step' = step + 1) =>
          LET t   == calls'[1]
              z   == <<Vec(Displacements(Y[step - 1]), n_bodies),
                       Vec(Velocities(Y[step - 1]), n_bodies)>>
              inc == ClassicalRK4(rk, z, t)
          IN  /\ calls' = <<t, t + t_step \div 2, t + t_step \div 2, t + t_step>>
              /\ \A b \in 1..n_bodies :
                    Y'[step][b] = <<RAdd(Y[step - 1][b][1], inc[2][b]),
                                    RAdd(Y[step - 1][b][2], inc[1][b])>>
              /\ \A j \in 0..(n_tsteps - 1) : j # step => Y'[j] = Y[j]
              /\ rk' = rk /\ M' = M /\ C' = C /\ K' = K]_vars

\* two coupled bodies, one of them driven by a force that is not zero, after a
\* step that changed the velocity and the displacement of a body
C13_Witness ==
    /\ pc = "loop" /\ err = "none" /\ step >= 2 /\ n_bodies = 2
    /\ K[0][1] # 0
    /\ \E b \in 1..n_bodies : \E j \in 1..n_tsteps : rk.P[b].P_array[j] # 0
    /\ \E b \in 1..n_bodies :
          /\ Y[step - 1][b][1] # Y[step - 2][b][1]
          /\ Y[step - 1][b][2] # Y[step - 2][b][2]

\* C14: the no-coupling check of couple_bodies covers the row of the ground:
\* whenever couple_bodies succeeds some movable body is coupled to ground, and a
\* registry whose movable bodies are coupled only to each other (every coupling
\* names another movable body of the registry) is rejected with the no-coupling
\* error.
C14_GroundMustBeCoupled ==
    /\ (pc \in {"coupled", "recoupled"} /\ err = "none")
          => \E b \in Movable : Grounded(b)
    /\ (pc = "coupled"
          /\ \A a \in Movable :
                \A j \in 1..Len(bodies[a].coupl) :
                    \E b \in Movable \ {a} : bodies[a].coupl[j] = bodies[b].No)
          => err = "ValueError(no coupling)"

\* couple_bodies has rejected three bodies that are coupled to each other, each
\* of them to some other, and none to the ground
C14_Witness ==
    /\ pc = "coupled" /\ err = "ValueError(no coupling)"
    /\ Len(bodies) = 4 /\ bodies[1].No = 0
    /\ \A a \in Movable :
          /\ ~Grounded(a)
          /\ bodies[a].coupl # <<>>
          /\ \A j \in 1..Len(bodies[a].coupl) :
                \E b \in Movable \ {a} : bodies[a].coupl[j] = bodies[b].No

=============================================================================
